---- MODULE Spec2Model ----
(***************************************************************************)
(* Model of the HDFS storage driver                                        *)
(* (registry/storage/driver/hdfs/driver.go).                               *)
(*                                                                         *)
(* Paths are sequences of one-character strings, so that strings.HasPrefix *)
(* and path.Join/path.Clean/path.Dir are computed character by character.  *)
(* The remote namenode's namespace is the variable fs, a function from the *)
(* paths that exist to their nodes.                                        *)
(***************************************************************************)
EXTENDS Integers, Sequences, FiniteSets, TLC

\* ------------------------------------------------------------------ bounds
MaxLen == 2          \* longest byte sequence handed to PutContent / Write
MaxFile == 2         \* longest object the remote namespace is let to hold
MaxCloses == 2       \* cap of the count of remote close calls of a session

Bytes == {1, 2}

\* byte sequences of at most n bytes
RECURSIVE SeqsUpTo(_)
SeqsUpTo(n) ==
    IF n = 0 THEN {<<>>}
    ELSE LET shorter == SeqsUpTo(n - 1)
         IN shorter \cup {Append(q, x) : q \in {y \in shorter : Len(y) = n - 1}, x \in Bytes}

Contents == SeqsUpTo(MaxLen)

\* ------------------------------------------------------------ path strings
SL == "/"

\* strings.HasPrefix(s, prefix)
HasPrefix(s, prefix) ==
    /\ Len(prefix) <= Len(s)
    /\ SubSeq(s, 1, Len(prefix)) = prefix

\* the elements of s between slashes, empty elements dropped
RECURSIVE Elements(_, _, _)
Elements(s, i, cur) ==
    IF i > Len(s)
    THEN IF cur = <<>> THEN <<>> ELSE <<cur>>
    ELSE IF s[i] = SL
         THEN (IF cur = <<>> THEN <<>> ELSE <<cur>>) \o Elements(s, i + 1, <<>>)
         ELSE Elements(s, i + 1, Append(cur, s[i]))

DOT == <<".">>
DOTDOT == <<".", ".">>

\* path.Clean's element rules: drop ".", let ".." cancel the element before
\* it, drop ".." at the start of a rooted path, keep it in a relative one
RECURSIVE CleanElements(_, _, _, _)
CleanElements(els, i, out, rooted) ==
    IF i > Len(els) THEN out
    ELSE IF els[i] = DOT THEN CleanElements(els, i + 1, out, rooted)
    ELSE IF els[i] = DOTDOT
         THEN IF out # <<>> /\ out[Len(out)] # DOTDOT
              THEN CleanElements(els, i + 1, SubSeq(out, 1, Len(out) - 1), rooted)
              ELSE IF rooted
                   THEN CleanElements(els, i + 1, out, rooted)
                   ELSE CleanElements(els, i + 1, Append(out, DOTDOT), rooted)
    ELSE CleanElements(els, i + 1, Append(out, els[i]), rooted)

RECURSIVE JoinElements(_, _)
JoinElements(els, i) ==
    IF i > Len(els) THEN <<>>
    ELSE (IF i > 1 THEN <<SL>> ELSE <<>>) \o els[i] \o JoinElements(els, i + 1)

\* path.Clean(s), element by element
CleanPath(s) ==
    IF s = <<>> THEN DOT
    ELSE LET rooted == s[1] = SL
             els == CleanElements(Elements(s, 1, <<>>), 1, <<>>, rooted)
         IN IF rooted THEN <<SL>> \o JoinElements(els, 1)
            ELSE IF els = <<>> THEN DOT ELSE JoinElements(els, 1)

\* the configured roots and the logical paths the callers use
Roots == {<<"/", "r">>, <<"/", "r", "/">>}

\* logical paths of objects
ObjPaths == {<<"/", "a">>, <<"/", "d", "/", "e", "/", "a">>}

\* logical paths given to Stat, List and Delete
AnyPaths ==
    ObjPaths \cup {<<"/", "d">>, <<"/", "d", "/", "e">>, <<"/">>,
                   <<"/", ".", ".">>, <<"/", "r", "a">>}

\* index of the last slash of s, 0 when it has none
RECURSIVE LastSlash(_, _)
LastSlash(s, i) ==
    IF i = 0 THEN 0
    ELSE IF s[i] = SL THEN i ELSE LastSlash(s, i - 1)

\* the strings the driver cleans for these roots and paths
Resolved(S) ==
    {IF HasPrefix(s, r) THEN s ELSE CleanPath(r \o <<SL>> \o s) : r \in Roots, s \in S}

Joined(S) == {r \o <<SL>> \o s : r \in Roots, s \in S}

Heads(S) == {SubSeq(s, 1, LastSlash(s, Len(s))) : s \in S}

\* path.Clean of those strings, computed once
CleanTable ==
    LET Table(known) == [s \in known |-> CleanPath(s)]
        Closed(raw) == raw \cup {CleanPath(s) : s \in raw}
        Cleaned(all) == Closed(all \cup Joined(all) \cup Heads(all))
        Twice(once) == Cleaned(once \cup Resolved(once))
    IN Table(Twice(AnyPaths \cup Resolved(AnyPaths)))

\* path.Clean(s)
Clean(s) == IF s \in DOMAIN CleanTable THEN CleanTable[s] ELSE CleanPath(s)

\* path.Join(a, b): empty elements are ignored, the rest joined with a slash
\* and cleaned
Join(a, b) ==
    IF a = <<>> /\ b = <<>> THEN <<>>
    ELSE Clean(IF a = <<>> THEN b ELSE IF b = <<>> THEN a ELSE a \o <<SL>> \o b)

\* path.Dir(s): everything up to the last slash, cleaned
Dir(s) == Clean(SubSeq(s, 1, LastSlash(s, Len(s))))

\* the last element of a clean absolute path (os.FileInfo.Name)
BaseName(s) == SubSeq(s, LastSlash(s, Len(s)) + 1, Len(s))

\* ------------------------------------------------- the remote namespace
\* (the namenode behind d.hdfsClient; a node is a directory or a file)
NoPath == <<>>
ROOTDIR == <<SL>>
DirNode == [isDir |-> TRUE, data |-> <<>>]
FileNode(b) == [isDir |-> FALSE, data |-> b]

\* the node a name handed to the client designates
Key(s) == Clean(s)

\* the directory holding the node at the clean absolute path k
Parent(k) ==
    IF LastSlash(k, Len(k)) <= 1 THEN ROOTDIR
    ELSE SubSeq(k, 1, LastSlash(k, Len(k)) - 1)

\* q lies strictly below directory p (both clean and absolute)
IsUnder(q, p) ==
    /\ q # p
    /\ IF p = ROOTDIR THEN HasPrefix(q, ROOTDIR) ELSE HasPrefix(q, p \o <<SL>>)

\* the clean absolute path k and all of its ancestors
SelfAndAncestors(k) ==
    {k} \cup {IF i = 1 THEN ROOTDIR ELSE SubSeq(k, 1, i - 1) :
                 i \in {j \in 1..Len(k) : k[j] = SL}}

Children(f, k) == {q \in DOMAIN f : q # k /\ Parent(q) = k}

SetToSeq(S) ==
    CHOOSE q \in [1..Cardinality(S) -> S] : {q[i] : i \in 1..Cardinality(S)} = S

\* hdfsClient.MkdirAll(name, mode); t: the call fails for the backend's own
\* reasons
RMkdirAll(f, s, t) ==
    LET At(chain) ==
            IF t \/ \E q \in chain : q \in DOMAIN f /\ ~f[q].isDir
            THEN [ok |-> FALSE, fs |-> f]
            ELSE [ok |-> TRUE,
                  fs |-> [q \in DOMAIN f \cup chain |->
                             IF q \in DOMAIN f THEN f[q] ELSE DirNode]]
    IN At(SelfAndAncestors(Key(s)))

\* hdfsClient.Open(name): succeeds on files and directories that exist
ROpen(f, s, t) ==
    LET At(k) ==
            IF t \/ k \notin DOMAIN f
            THEN [ok |-> FALSE, size |-> 0, isDir |-> FALSE]
            ELSE [ok |-> TRUE, size |-> Len(f[k].data), isDir |-> f[k].isDir]
    IN At(Key(s))

\* hdfsClient.Stat(name)
RStat(f, s, t) ==
    LET At(k) ==
            IF t \/ k \notin DOMAIN f
            THEN [ok |-> FALSE, size |-> 0, isDir |-> FALSE]
            ELSE [ok |-> TRUE, size |-> Len(f[k].data), isDir |-> f[k].isDir]
    IN At(Key(s))

\* hdfsClient.ReadFile(name)
RReadFile(f, s, t) ==
    LET At(k) ==
            IF t \/ k \notin DOMAIN f \/ f[k].isDir
            THEN [ok |-> FALSE, data |-> <<>>]
            ELSE [ok |-> TRUE, data |-> f[k].data]
    IN At(Key(s))

\* hdfsClient.ReadDir(name): the names of the immediate children
RReadDir(f, s, t) ==
    LET At(k) ==
            IF t \/ k \notin DOMAIN f \/ ~f[k].isDir
            THEN [ok |-> FALSE, names |-> <<>>]
            ELSE [ok |-> TRUE,
                  names |-> SetToSeq({BaseName(q) : q \in Children(f, k)})]
    IN At(Key(s))

\* hdfsClient.Create(name): a new empty file; the name must be free and its
\* parent an existing directory
RCreate(f, s, t) ==
    LET At(k, dir) ==
            IF t \/ k \in DOMAIN f \/ dir \notin DOMAIN f \/ ~f[dir].isDir
            THEN [ok |-> FALSE, fs |-> f]
            ELSE [ok |-> TRUE,
                  fs |-> [q \in DOMAIN f \cup {k} |->
                             IF q = k THEN FileNode(<<>>) ELSE f[q]]]
        Of(k) == At(k, Parent(k))
    IN Of(Key(s))

\* hdfsClient.Append(name): the name must be an existing file that no open
\* write handle holds (held: the path an open handle is on)
RAppend(f, s, t, held) ==
    LET At(k) == [ok |-> ~t /\ k \in DOMAIN f /\ ~f[k].isDir /\ held # k,
                  fs |-> f]
    IN At(Key(s))

\* hdfsClient.Remove(name): removes the node and everything below it
RRemove(f, s, t) ==
    LET At(k) ==
            IF t \/ k \notin DOMAIN f \/ k = ROOTDIR
            THEN [ok |-> FALSE, fs |-> f]
            ELSE [ok |-> TRUE,
                  fs |-> [q \in {x \in DOMAIN f : x # k /\ ~IsUnder(x, k)} |->
                             f[q]]]
    IN At(Key(s))

\* where the node at q is after old was renamed to new
Moved(q, old, new) ==
    IF q = old THEN new ELSE new \o SubSeq(q, Len(old) + 1, Len(q))

\* hdfsClient.Rename(oldpath, newpath): moves the node and its subtree,
\* replacing a file (or an empty directory, for a directory) at newpath
RRename(f, s1, s2, t) ==
    LET At(old, new, dir) ==
            IF \/ t
               \/ old \notin DOMAIN f
               \/ old = ROOTDIR
               \/ new = old
               \/ IsUnder(new, old)
               \/ dir \notin DOMAIN f
               \/ ~f[dir].isDir
               \/ /\ new \in DOMAIN f
                  /\ \/ f[new].isDir # f[old].isDir
                     \/ Children(f, new) # {}
            THEN [ok |-> FALSE, fs |-> f]
            ELSE [ok |-> TRUE,
                  fs |-> [q \in {x \in DOMAIN f :
                                   x # old /\ ~IsUnder(x, old) /\ x # new}
                                \cup {Moved(x, old, new) :
                                        x \in {y \in DOMAIN f :
                                                 y = old \/ IsUnder(y, old)}} |->
                             IF q = new \/ IsUnder(q, new)
                             THEN f[old \o SubSeq(q, Len(new) + 1, Len(q))]
                             ELSE f[q]]]
        Of(old, new) == At(old, new, Parent(new))
    IN Of(Key(s1), Key(s2))

\* ------------------------------------------------------------ the driver
VARIABLES
    root,       \* d.hdfsRootDirectory
    fs,         \* the remote namespace reached through d.hdfsClient
    w,          \* the fileWriter the caller holds (NoSession: none)
    h,          \* the remote write handle w.hdfsWriter points to
    acct,       \* history of the session: what it started with and was given
    last        \* the call that returned last: arguments, result, remote calls

vars == <<root, fs, w, h, acct, last>>

\* fullPath returns the full path to the file
fullPath(subPath) ==
    IF HasPrefix(subPath, root) THEN subPath ELSE Join(root, subPath)

\* the path makeParentDir hands to MkdirAll
ParentDirOf(subPath) == Dir(fullPath(subPath))

\* creates the parent directory with the default umask
makeParentDir(f, subPath, t) == RMkdirAll(f, ParentDirOf(subPath), t)

NoSession ==
    [live |-> FALSE, hdfsWriter |-> "nil", filePath |-> NoPath,
     isClosed |-> FALSE, writeSize |-> 0, startingFileSize |-> 0]

NoHandle == [open |-> FALSE, at |-> NoPath]

\* had: what was at the path when the session was opened ("none", "file",
\* "dir"); start: its size; seed: the starting size the session was given;
\* settled: the session before it, if any, had a remote handle and was
\* closed; bytes: what Write was given; closes: how often the remote
\* handle's Close was invoked
NoAcct == [append |-> FALSE, had |-> "none", start |-> 0, seed |-> 0,
           settled |-> TRUE, bytes |-> <<>>, closes |-> 0]

newFileWriter(hdfsWriter, filePath, startingFileSize) ==
    [live |-> TRUE, hdfsWriter |-> hdfsWriter, filePath |-> filePath,
     isClosed |-> FALSE, writeSize |-> 0, startingFileSize |-> startingFileSize]

\* a write handle follows its file: it loses it when the file is removed or
\* replaced, and moves with it when the file is renamed
HandleAfterRemove(hd, s) ==
    LET At(k) == IF hd.at # NoPath /\ (hd.at = k \/ IsUnder(hd.at, k))
                 THEN [hd EXCEPT !.at = NoPath] ELSE hd
    IN At(Key(s))

HandleAfterRename(hd, s1, s2) ==
    LET At(old, new) ==
            IF hd.at = NoPath THEN hd
            ELSE IF hd.at = old \/ IsUnder(hd.at, old)
                 THEN [hd EXCEPT !.at = Moved(hd.at, old, new)]
                 ELSE IF hd.at = new THEN [hd EXCEPT !.at = NoPath] ELSE hd
    IN At(Key(s1), Key(s2))

\* the path an open write handle is on (NoPath: none)
HeldBy(hd) == IF hd.open THEN hd.at ELSE NoPath

\* what Writer returns around the result res of Create or Append: the
\* fileWriter, with a nil hdfsWriter when res is an error (which is dropped)
Session(fp, startingFileSize, res, at, existed, removed, failed) ==
    [fs |-> res.fs,
     w |-> newFileWriter(IF res.ok THEN "set" ELSE "nil", fp, startingFileSize),
     h |-> IF res.ok THEN [open |-> TRUE, at |-> at] ELSE NoHandle,
     existed |-> existed, removed |-> removed,
     failed |-> failed \/ ~res.ok]

\* driver.Writer: the session, the namespace and the remote calls it made.
\* fail names the remote call that fails for a reason of the backend's own.
WriterOp(f, hd, path, append, fail) ==
    LET At(fp, k) ==
            LET Made(mk) ==
                    LET Probed(op) ==
                            IF ~op.ok
                            THEN Session(fp, 0, RCreate(mk.fs, fp, fail = "create"),
                                         k, FALSE, FALSE, ~mk.ok)
                            ELSE IF ~append
                            THEN LET Removed(rm) ==
                                         Session(fp, 0,
                                                 RCreate(rm.fs, fp, fail = "create"),
                                                 k, TRUE, rm.ok, ~mk.ok \/ ~rm.ok)
                                 IN Removed(RRemove(mk.fs, fp, fail = "remove"))
                            ELSE Session(fp, op.size,
                                         RAppend(mk.fs, fp, fail = "append",
                                                 HeldBy(hd)),
                                         k, TRUE, FALSE, ~mk.ok)
                    IN Probed(ROpen(mk.fs, fp, fail = "open"))
            IN Made(makeParentDir(f, fp, fail = "mkdir"))
        Of(fp) == At(fp, Key(fp))
    IN Of(fullPath(path))

\* the read handles Writer leaves open: the reader of its probing Open, when
\* that succeeded, is not closed on any path
ProbeLeft(wo) == IF wo.existed THEN 1 ELSE 0

\* the names Writer hands to the client
WriterTargets(path) ==
    LET Of(fp) == {ParentDirOf(fp), fp}
    IN Of(fullPath(path))

\* a Size that adds the starting size on every call
SizeOpNoReset(ws) ==
    [ws EXCEPT !.writeSize = ws.writeSize + ws.startingFileSize]

\* fileWriter.Size: folds the starting size into the counter once
SizeOp(ws) ==
    IF ws.startingFileSize > 0
    THEN [ws EXCEPT !.writeSize = ws.writeSize + ws.startingFileSize,
                    !.startingFileSize = 0]
    ELSE ws

\* hdfsWriter.Write(p) on the remote handle: the bytes reach the file the
\* handle is open on
HandleWrite(f, hd, b, t) ==
    IF t \/ ~hd.open \/ hd.at = NoPath \/ hd.at \notin DOMAIN f
    THEN [ok |-> FALSE, fs |-> f]
    ELSE [ok |-> TRUE,
          fs |-> [f EXCEPT ![hd.at] = FileNode(f[hd.at].data \o b)]]

\* hdfsWriter.Close() on the remote handle
HandleClose(hd, t) ==
    [ok |-> ~t /\ hd.open /\ hd.at # NoPath, h |-> [hd EXCEPT !.open = FALSE]]

\* fileWriter.Write; a nil hdfsWriter is dereferenced and the call panics
WriteOp(f, ws, hd, b, fail) ==
    LET Folded(w1) ==
            IF ws.hdfsWriter = "nil"
            THEN [ret |-> "panic", fs |-> f, w |-> w1, failed |-> FALSE]
            ELSE LET Sent(wr) ==
                         [ret |-> "ok", fs |-> wr.fs,
                          w |-> [w1 EXCEPT !.isClosed = FALSE,
                                           !.writeSize = w1.writeSize + Len(b)],
                          failed |-> ~wr.ok]
                 IN Sent(HandleWrite(f, hd, b, fail = "write"))
    IN Folded(SizeOp(ws))

\* fileWriter.Close
CloseOp(ws, hd, fail) ==
    LET Folded(w1) ==
            IF ws.hdfsWriter # "nil" /\ ~ws.isClosed
            THEN LET Shut(cl) ==
                         [w |-> [w1 EXCEPT !.isClosed = TRUE], h |-> cl.h,
                          called |-> TRUE, failed |-> ~cl.ok]
                 IN Shut(HandleClose(hd, fail = "close"))
            ELSE [w |-> w1, h |-> hd, called |-> FALSE, failed |-> FALSE]
    IN Folded(SizeOp(ws))

\* ------------------------------------------------------- construction
\* a value of the parameters map (interface{}): absent, a string or an int
Absent == [type |-> "absent", s |-> <<>>, n |-> 0]
StrVal(s) == [type |-> "string", s |-> s, n |-> 0]
IntVal(n) == [type |-> "int", s |-> <<>>, n |-> n]

\* the decimal digits of n >= 0
RECURSIVE Digits(_)
Digits(n) ==
    LET d == <<"0", "1", "2", "3", "4", "5", "6", "7", "8", "9">>
    IN IF n < 10 THEN <<d[n + 1]>> ELSE Digits(n \div 10) \o <<d[(n % 10) + 1]>>

\* fmt.Sprint(v)
Sprint(v) == IF v.type = "string" THEN v.s ELSE Digits(v.n)

\* Default values for the driverParameters if not set by the user.
defaultHdfsRootDirectory ==
    <<"/", "t", "m", "p", "/", "h", "d", "f", "s", "-",
      "r", "e", "g", "i", "s", "t", "r", "y">>
defaultHdfsNamenode == <<>>
defaultHdfsUser == <<"h", "d", "f", "s">>
defaultDirectoryUmask == 493

\* parameters map[string]interface{}: nil, or the values of the keys
NoParameters ==
    [nil |-> TRUE, hdfsrootdirectory |-> Absent, hdfsnamenode |-> Absent,
     hdfsuser |-> Absent, directoryumask |-> Absent]

ParameterMaps ==
    {NoParameters} \cup
    [nil : {FALSE},
     hdfsrootdirectory : {Absent, StrVal(<<"/", "r">>), IntVal(7)},
     hdfsnamenode : {Absent, StrVal(<<"n">>)},
     hdfsuser : {Absent, StrVal(<<"u">>)},
     directoryumask : {Absent, IntVal(448), StrVal(<<"0", "7", "0", "0">>)}]

\* the driver struct (without the client)
NoDriver ==
    [hdfsRootDirectory |-> NoPath, hdfsNameNode |-> <<>>, hdfsUser |-> <<>>,
     directoryUmask |-> 0]

\* New: log.Fatal ends the process when the connection cannot be set up
New(params, connects) ==
    IF ~connects THEN [ret |-> "exit", driver |-> NoDriver]
    ELSE [ret |-> "driver", driver |-> params]

\* FromParameters: the type assertion dUmask.(int) panics on another type
FromParametersOp(parameters, connects) ==
    LET Given(v) == ~parameters.nil /\ v.type # "absent"
        Or(v, default) == IF Given(v) THEN Sprint(v) ELSE default
    IN IF Given(parameters.directoryumask)
          /\ parameters.directoryumask.type # "int"
       THEN [ret |-> "panic", driver |-> NoDriver]
       ELSE New([hdfsRootDirectory |->
                     Or(parameters.hdfsrootdirectory, defaultHdfsRootDirectory),
                 hdfsNameNode |->
                     Or(parameters.hdfsnamenode, defaultHdfsNamenode),
                 hdfsUser |-> Or(parameters.hdfsuser, defaultHdfsUser),
                 directoryUmask |->
                     IF Given(parameters.directoryumask)
                     THEN parameters.directoryumask.n
                     ELSE defaultDirectoryUmask],
                connects)

\* ------------------------------------------------------------ the calls
Offsets == 0..(MaxFile + 1)

\* what the caller holds after a call: the call, its arguments, what it
\* returned, and the remote calls made for it (failed: one of them failed;
\* fault: the one the backend was made to fail; targets: the names they got;
\* leaks: the remote handles it opened and neither closed nor returned)
NoCall ==
    [op |-> "none", path |-> NoPath, dst |-> NoPath, bytes |-> <<>>, n |-> 0,
     flag |-> FALSE, ret |-> "ok", data |-> <<>>, list |-> <<>>,
     failed |-> FALSE, fault |-> "none", targets |-> {}, leaks |-> 0,
     parameters |-> NoParameters, driver |-> NoDriver]

Idle == last.op = "none"

Init ==
    /\ root \in Roots
    /\ fs = (ROOTDIR :> DirNode)
    /\ w = NoSession
    /\ h = NoHandle
    /\ acct = NoAcct
    /\ last = NoCall

\* the caller is done with the result of its last call and makes the next
Return ==
    /\ ~Idle
    /\ last' = NoCall
    /\ UNCHANGED <<root, fs, w, h, acct>>

\* FromParameters constructs a driver; connects: the connection to the
\* namenode can be set up
FromParameters(parameters, connects) ==
    LET Done(res) ==
            /\ root' = IF res.ret = "driver"
                       THEN res.driver.hdfsRootDirectory ELSE root
            /\ last' = [NoCall EXCEPT !.op = "FromParameters",
                            !.parameters = parameters, !.flag = connects,
                            !.ret = res.ret, !.driver = res.driver,
                            !.failed = ~connects]
    IN /\ Idle
       /\ Done(FromParametersOp(parameters, connects))
       /\ UNCHANGED <<fs, w, h, acct>>

\* ------------------------------------------------------- Driver operations
\* a GetContent whose error carries the path it was given
GetContentOpGivenPath(f, p, t) ==
    LET Got(rd) ==
            [ret |-> IF rd.ok THEN "ok" ELSE "PathNotFound",
             path |-> IF rd.ok THEN NoPath ELSE p,
             data |-> rd.data]
    IN Got(RReadFile(f, fullPath(p), t))

\* GetContent retrieves the content stored at "path" as a []byte: what it
\* returns in the namespace f (path: the Path of the PathNotFoundError)
GetContentOp(f, p, t) ==
    LET Got(rd) ==
            [ret |-> IF rd.ok THEN "ok" ELSE "PathNotFound",
             path |-> IF rd.ok THEN NoPath ELSE fullPath(p),
             data |-> rd.data]
    IN Got(RReadFile(f, fullPath(p), t))

GetContent(p, fail) ==
    LET Got(res) ==
            last' = [NoCall EXCEPT !.op = "GetContent", !.path = p,
                        !.ret = res.ret, !.dst = res.path, !.data = res.data,
                        !.failed = res.ret # "ok", !.fault = fail,
                        !.targets = {fullPath(p)}]
    IN /\ Idle
       /\ Got(GetContentOp(fs, p, fail = "read"))
       /\ UNCHANGED <<root, fs, w, h, acct>>

\* PutContent stores the []byte content at a location designated by "path".
\* Writer's error and Close's are dropped, Write's is always nil.
PutContent(p, b, fail) ==
    LET Done(fp, mk, wo, wr, cl) ==
            /\ fs' = wr.fs
            /\ h' = IF wo.removed THEN HandleAfterRemove(h, wo.w.filePath) ELSE h
            /\ last' = [NoCall EXCEPT !.op = "PutContent", !.path = p,
                            !.bytes = b, !.ret = wr.ret,
                            !.failed = \/ ~mk.ok \/ wo.failed \/ wr.failed
                                       \/ (wr.ret = "ok" /\ cl.failed),
                            !.fault = fail, !.leaks = ProbeLeft(wo),
                            !.targets = {ParentDirOf(fp)} \cup WriterTargets(fp)]
        Written(fp, mk, wo, wr) == Done(fp, mk, wo, wr, CloseOp(wr.w, wo.h, fail))
        Opened(fp, mk, wo) ==
            Written(fp, mk, wo, WriteOp(wo.fs, wo.w, wo.h, b, fail))
        Made(fp, mk) == Opened(fp, mk, WriterOp(mk.fs, h, fp, FALSE, fail))
        At(fp) == Made(fp, makeParentDir(fs, fp, fail = "mkdir0"))
    IN /\ Idle
       /\ Len(b) <= MaxFile
       /\ At(fullPath(p))
       /\ UNCHANGED <<root, w, acct>>

\* Reader retrieves an io.ReadCloser for the content stored at "path" with a
\* given byte offset.  A failed Open leaves reader nil and Seek panics on it.
\* Past the end of the file the client's Seek either reports an error or
\* stops short of the offset (short).
Reader(p, offset, fail, short) ==
    LET Sought(fp, op, rd, seekErr, seekPos) ==
            last' = [NoCall EXCEPT !.op = "Reader", !.path = p, !.n = offset,
                        !.ret = IF ~op.ok THEN "panic"
                                ELSE IF seekErr THEN "SeekError"
                                ELSE IF seekPos < offset THEN "InvalidOffset"
                                ELSE "ok",
                        !.dst = IF op.ok /\ ~seekErr /\ seekPos < offset
                                THEN fp ELSE NoPath,
                        !.data = IF op.ok /\ ~seekErr /\ seekPos >= offset /\ rd.ok
                                 THEN SubSeq(rd.data, offset + 1, Len(rd.data))
                                 ELSE <<>>,
                        !.flag = op.ok /\ ~seekErr /\ seekPos >= offset,
                        !.failed = ~op.ok \/ seekErr, !.fault = fail,
                        !.targets = {fp}]
        Opened(fp, op, rd) ==
            Sought(fp, op, rd,
                   fail = "seek" \/ offset < 0 \/ (offset > op.size /\ ~short),
                   IF offset > op.size THEN op.size ELSE offset)
        At(fp) == Opened(fp, ROpen(fs, fp, fail = "open"), RReadFile(fs, fp, FALSE))
    IN /\ Idle
       /\ At(fullPath(p))
       /\ UNCHANGED <<root, fs, w, h, acct>>

\* Stat retrieves the FileInfo for the given path: what it returns in the
\* namespace f (path: the Path of the FileInfo or of the PathNotFoundError)
StatOp(f, p, t) ==
    LET Got(st) ==
            [ret |-> IF st.ok THEN "ok" ELSE "PathNotFound",
             path |-> fullPath(p), size |-> st.size, isDir |-> st.isDir]
    IN Got(RStat(f, fullPath(p), t))

Stat(p, fail) ==
    LET Got(res) ==
            last' = [NoCall EXCEPT !.op = "Stat", !.path = p,
                        !.ret = res.ret, !.dst = res.path,
                        !.n = res.size, !.flag = res.isDir,
                        !.failed = res.ret # "ok", !.fault = fail,
                        !.targets = {fullPath(p)}]
    IN /\ Idle
       /\ Got(StatOp(fs, p, fail = "stat"))
       /\ UNCHANGED <<root, fs, w, h, acct>>

\* List returns a list of the objects that are direct descendants of the
\* given path.
List(subPath, fail) ==
    LET Got(ls) ==
            last' = [NoCall EXCEPT !.op = "List", !.path = subPath,
                        !.ret = "ok",
                        !.list = IF ~ls.ok THEN <<>>
                                 ELSE [i \in 1..Len(ls.names) |->
                                         fullPath(subPath) \o <<SL>> \o ls.names[i]],
                        !.failed = ~ls.ok, !.fault = fail,
                        !.targets = {fullPath(subPath)}]
    IN /\ Idle
       /\ Got(RReadDir(fs, fullPath(subPath), fail = "readdir"))
       /\ UNCHANGED <<root, fs, w, h, acct>>

\* the file at the name s in f: whether there is one, and what it holds
FileAt(f, s) ==
    LET At(k) == [isFile |-> k \in DOMAIN f /\ ~f[k].isDir,
                  data |-> IF k \in DOMAIN f THEN f[k].data ELSE <<>>]
    IN At(Key(s))

\* a Move that drops the result of Rename, as it drops makeParentDir's
MoveRetDropped(rn) == "ok"

\* what Move returns: the result of Rename
MoveRet(rn) == IF rn.ok THEN "ok" ELSE "RenameError"

\* Move moves an object stored at sourcePath to destPath, removing the
\* original object.  makeParentDir's error is dropped, Rename's returned.
\* (data, flag: the file that was at sourcePath; n: directories created)
Move(sourcePath, destPath, fail) ==
    LET Done(src, dst, mk, rn, was) ==
            /\ fs' = rn.fs
            /\ h' = IF rn.ok THEN HandleAfterRename(h, src, dst) ELSE h
            /\ last' = [NoCall EXCEPT !.op = "Move", !.path = sourcePath,
                            !.dst = destPath,
                            !.ret = MoveRet(rn),
                            !.data = was.data, !.flag = was.isFile,
                            !.n = Cardinality(DOMAIN mk.fs \ DOMAIN fs),
                            !.failed = ~mk.ok \/ ~rn.ok, !.fault = fail,
                            !.targets = {ParentDirOf(dst), src, dst}]
        Made(src, dst, mk) ==
            Done(src, dst, mk, RRename(mk.fs, src, dst, fail = "rename"),
                 FileAt(fs, src))
        At(src, dst) == Made(src, dst, makeParentDir(fs, dst, fail = "mkdir"))
    IN /\ Idle
       /\ At(fullPath(sourcePath), fullPath(destPath))
       /\ UNCHANGED <<root, w, acct>>

\* a first step of Move that also takes the object off the source path
MoveProvisionUnlinks(sourcePath, destPath, fail) ==
    LET Done(src, dst, mk, was, k) ==
            /\ fs' = [q \in DOMAIN mk.fs \ {k} |-> mk.fs[q]]
            /\ last' = [NoCall EXCEPT !.op = "Move", !.path = sourcePath,
                            !.dst = destPath, !.ret = "provisioned",
                            !.data = was.data, !.flag = was.isFile,
                            !.n = Cardinality(DOMAIN mk.fs \ DOMAIN fs),
                            !.failed = ~mk.ok, !.fault = fail,
                            !.targets = {ParentDirOf(dst)}]
        At(src, dst) ==
            Done(src, dst, makeParentDir(fs, dst, fail = "mkdir"),
                 FileAt(fs, src), Key(src))
    IN /\ Idle
       /\ At(fullPath(sourcePath), fullPath(destPath))
       /\ UNCHANGED <<root, w, h, acct>>

\* the first step of Move: d.makeParentDir(d.fullPath(destPath)), its error
\* dropped (data, flag: the file at sourcePath; n: directories created)
MoveProvision(sourcePath, destPath, fail) ==
    LET Done(src, dst, mk, was) ==
            /\ fs' = mk.fs
            /\ last' = [NoCall EXCEPT !.op = "Move", !.path = sourcePath,
                            !.dst = destPath, !.ret = "provisioned",
                            !.data = was.data, !.flag = was.isFile,
                            !.n = Cardinality(DOMAIN mk.fs \ DOMAIN fs),
                            !.failed = ~mk.ok, !.fault = fail,
                            !.targets = {ParentDirOf(dst)}]
        At(src, dst) ==
            Done(src, dst, makeParentDir(fs, dst, fail = "mkdir"),
                 FileAt(fs, src))
    IN /\ Idle
       /\ At(fullPath(sourcePath), fullPath(destPath))
       /\ UNCHANGED <<root, w, h, acct>>

\* a Move is between its two steps
Provisioned == last.op = "Move" /\ last.ret = "provisioned"

\* the second step of Move: return d.hdfsClient.Rename(source, dest)
MoveRename(fail) ==
    LET Done(src, dst, rn) ==
            /\ fs' = rn.fs
            /\ h' = IF rn.ok THEN HandleAfterRename(h, src, dst) ELSE h
            /\ last' = [last EXCEPT !.ret = MoveRet(rn),
                            !.failed = last.failed \/ ~rn.ok,
                            !.fault = IF fail = "none" THEN last.fault ELSE fail,
                            !.targets = last.targets \cup {src, dst}]
        At(src, dst) == Done(src, dst, RRename(fs, src, dst, fail = "rename"))
    IN /\ Provisioned
       /\ At(fullPath(last.path), fullPath(last.dst))
       /\ UNCHANGED <<root, w, acct>>

\* the process stops between the two steps of Move; the remote filesystem
\* stays as the first step left it
Crash ==
    /\ Provisioned
    /\ last' = [last EXCEPT !.ret = "crashed"]
    /\ UNCHANGED <<root, fs, w, h, acct>>

\* a Delete that reports success whatever Remove did
DeleteRetNil(rm) == "ok"

\* what Delete returns: the result of Remove
DeleteRet(rm) == IF rm.ok THEN "ok" ELSE "RemoveError"

\* Delete recursively deletes all objects stored at "path" and its subpaths.
\* (n: the nodes that were at or below the path)
Delete(p, fail) ==
    LET Done(fp, rm) ==
            /\ fs' = rm.fs
            /\ h' = IF rm.ok THEN HandleAfterRemove(h, fp) ELSE h
            /\ last' = [NoCall EXCEPT !.op = "Delete", !.path = p,
                            !.ret = DeleteRet(rm),
                            !.n = Cardinality(DOMAIN fs \ DOMAIN rm.fs),
                            !.failed = ~rm.ok, !.fault = fail,
                            !.targets = {fp}]
        At(fp) == Done(fp, RRemove(fs, fp, fail = "remove"))
    IN /\ Idle
       /\ At(fullPath(p))
       /\ UNCHANGED <<root, w, acct>>

\* options map[string]interface{} of URLFor, as key and value pairs
Options ==
    {<<>>, <<<<"method", "GET">>>>, <<<<"method", "PUT">>, <<"expiry", "1">>>>}

\* a URLFor that hands out the resolved path as the URL
URLForOpFullPath(p, options) == [url |-> fullPath(p), ret |-> "ok"]

\* URLFor: what it returns
URLForOp(p, options) == [url |-> <<>>, ret |-> "UnsupportedMethod"]

\* URLFor returns a URL which may be used to retrieve the content stored at
\* the given path, possibly using the given options.
URLFor(p, options) ==
    LET Done(res) ==
            last' = [NoCall EXCEPT !.op = "URLFor", !.path = p,
                        !.list = options, !.ret = res.ret, !.data = res.url]
    IN /\ Idle
       /\ Done(URLForOp(p, options))
       /\ UNCHANGED <<root, fs, w, h, acct>>

\* ----------------------------------------------------- FileWriter sessions
\* Writer returns a FileWriter which will store the content written to it at
\* the location designated by "path".  The error it returns is always nil.
Writer(p, append, fail) ==
    LET Done(wo, had, size) ==
            /\ fs' = wo.fs
            /\ w' = wo.w
            /\ h' = wo.h
            /\ acct' = [append |-> append, had |-> had, start |-> size,
                        seed |-> wo.w.startingFileSize,
                        settled |-> ~w.live \/ (w.hdfsWriter = "set" /\ w.isClosed),
                        bytes |-> <<>>, closes |-> 0]
            /\ last' = [NoCall EXCEPT !.op = "Writer", !.path = p,
                            !.flag = append, !.ret = "ok",
                            !.failed = wo.failed, !.fault = fail,
                            !.leaks = ProbeLeft(wo),
                            !.targets = WriterTargets(p)]
        Opened(wo, k) ==
            Done(wo,
                 IF k \notin DOMAIN fs THEN "none"
                 ELSE IF fs[k].isDir THEN "dir" ELSE "file",
                 IF k \in DOMAIN fs THEN Len(fs[k].data) ELSE 0)
        At(wo) == Opened(wo, Key(wo.w.filePath))
    IN /\ Idle
       /\ At(WriterOp(fs, h, p, append, fail))
       /\ UNCHANGED root

\* fileWriter.Write
Write(b, fail) ==
    LET Done(wr) ==
            /\ fs' = wr.fs
            /\ w' = wr.w
            /\ acct' = IF wr.ret = "ok"
                       THEN [acct EXCEPT !.bytes = acct.bytes \o b]
                       ELSE acct
            /\ last' = [NoCall EXCEPT !.op = "Write", !.bytes = b,
                            !.ret = wr.ret,
                            !.n = IF wr.ret = "ok" THEN Len(b) ELSE 0,
                            !.failed = wr.failed, !.fault = fail]
    IN /\ Idle
       /\ w.live
       /\ acct.start + Len(acct.bytes) + Len(b) <= MaxFile
       /\ Done(WriteOp(fs, w, h, b, fail))
       /\ UNCHANGED <<root, h>>

\* fileWriter.Close
Close(fail) ==
    LET Done(cl) ==
            /\ w' = cl.w
            /\ h' = cl.h
            /\ acct' = IF cl.called
                       THEN [acct EXCEPT !.closes = acct.closes + 1]
                       ELSE acct
            /\ last' = [NoCall EXCEPT !.op = "Close", !.ret = "ok",
                            !.flag = cl.called, !.failed = cl.failed,
                            !.fault = fail]
    IN /\ Idle
       /\ w.live
       /\ acct.closes < MaxCloses
       /\ Done(CloseOp(w, h, fail))
       /\ UNCHANGED <<root, fs>>

\* fileWriter.Size returns the number of bytes written to this FileWriter.
Size ==
    /\ Idle
    /\ w.live
    /\ w' = SizeOp(w)
    /\ last' = [NoCall EXCEPT !.op = "Size", !.n = SizeOp(w).writeSize]
    /\ UNCHANGED <<root, fs, h, acct>>

\* a Cancel that removes the written content from the object
CancelRollback ==
    LET At(k) ==
            fs' = IF k \in DOMAIN fs /\ ~fs[k].isDir
                  THEN [fs EXCEPT ![k] = FileNode(<<>>)] ELSE fs
    IN /\ Idle
       /\ w.live
       /\ At(Key(w.filePath))
       /\ last' = [NoCall EXCEPT !.op = "Cancel", !.ret = "ok"]
       /\ UNCHANGED <<root, w, h, acct>>

\* fileWriter.Cancel
Cancel ==
    /\ Idle
    /\ w.live
    /\ last' = [NoCall EXCEPT !.op = "Cancel", !.ret = "ok"]
    /\ UNCHANGED <<root, fs, w, h, acct>>

\* fileWriter.Commit
Commit ==
    /\ Idle
    /\ w.live
    /\ last' = [NoCall EXCEPT !.op = "Commit", !.ret = "ok"]
    /\ UNCHANGED <<root, fs, w, h, acct>>

\* ------------------------------------------------------- specifications
PutFails == {"none", "mkdir0", "mkdir", "open", "remove", "create", "write", "close"}
WriterFails == {"none", "mkdir", "open", "remove", "create", "append"}

\* the storage driver's operations on objects and directories
Next ==
    \/ \E p \in ObjPaths, b \in Contents, fail \in PutFails : PutContent(p, b, fail)
    \/ \E p \in ObjPaths, fail \in {"none", "read"} : GetContent(p, fail)
    \/ \E p \in ObjPaths, k \in Offsets, fail \in {"none", "open", "seek"},
          short \in BOOLEAN : Reader(p, k, fail, short)
    \/ \E p \in AnyPaths, fail \in {"none", "stat"} : Stat(p, fail)
    \/ \E p \in AnyPaths, fail \in {"none", "readdir"} : List(p, fail)
    \/ \E a \in ObjPaths, b \in ObjPaths, fail \in {"none", "mkdir", "rename"} :
          Move(a, b, fail)
    \/ \E p \in AnyPaths, fail \in {"none", "remove"} : Delete(p, fail)
    \/ \E p \in AnyPaths, options \in Options : URLFor(p, options)
    \/ Return

Spec == Init /\ [][Next]_vars

\* one caller's FileWriter sessions on one object
WPath == <<"/", "d", "/", "e", "/", "a">>

NextW ==
    \/ \E append \in BOOLEAN, fail \in WriterFails : Writer(WPath, append, fail)
    \/ \E b \in Contents, fail \in {"none", "write"} : Write(b, fail)
    \/ \E fail \in {"none", "close"} : Close(fail)
    \/ Size
    \/ Cancel
    \/ Commit
    \/ \E fail \in {"none", "read"} : GetContent(WPath, fail)
    \/ Return

SpecW == Init /\ [][NextW]_vars

\* construction of drivers
InitC ==
    /\ root = NoPath
    /\ fs = (ROOTDIR :> DirNode)
    /\ w = NoSession
    /\ h = NoHandle
    /\ acct = NoAcct
    /\ last = NoCall

NextC ==
    \/ \E parameters \in ParameterMaps, connects \in BOOLEAN :
          FromParameters(parameters, connects)
    \/ Return

SpecC == InitC /\ [][NextC]_vars

\* Move step by step, with a process that may stop between the steps
NextM ==
    \/ \E p \in ObjPaths, b \in Contents, fail \in {"none"} :
          PutContent(p, b, fail)
    \/ \E a \in ObjPaths, b \in ObjPaths, fail \in {"none", "mkdir"} :
          MoveProvision(a, b, fail)
    \/ \E fail \in {"none", "rename"} : MoveRename(fail)
    \/ Crash
    \/ \E p \in ObjPaths, fail \in {"none", "read"} : GetContent(p, fail)
    \/ (~Provisioned /\ Return)

SpecM == Init /\ [][NextM]_vars

\* ------------------------------------------------------------- properties
\* the name t lies inside the subtree of the configured root directory
Inside(t) == Key(t) = Key(root) \/ IsUnder(Key(t), Key(root))

\* the session the caller holds was opened by a Writer call on a path whose
\* object the Writer was to replace or to create
FreshSession ==
    acct.settled /\ (acct.had = "none" \/ (acct.had = "file" /\ ~acct.append))

\* C1: a PutContent(p, b) that returned success is followed by a
\* GetContent(p) that returns exactly b
C1_RoundTrip ==
    (last.op = "PutContent" /\ last.ret = "ok")
        => GetContentOp(fs, last.path, FALSE) =
               [ret |-> "ok", path |-> NoPath, data |-> last.bytes]

\* C2: a PutContent or Move during which a remote call failed does not
\* return success
C2_NoSilentFailure ==
    (last.op \in {"PutContent", "Move"} /\ last.failed) => last.ret # "ok"

\* C3: a session opened with append on an object of N bytes, written by a
\* session that was closed, reports
\* Size() = N plus the bytes written in the session, at every point of it
C3_AppendAccounting ==
    (w.live /\ acct.append /\ acct.had = "file" /\ acct.settled)
        => SizeOp(w).writeSize = acct.start + Len(acct.bytes)

\* C4: on an object of length L, and with no failure of the backend,
\* Reader(p, k) yields the suffix from byte k when k <= L, and fails with
\* InvalidOffset carrying the path and the offset, with no reader, when k > L
C4_OffsetRead ==
    LET Of(obj) ==
            (last.op = "Reader" /\ last.fault = "none" /\ obj.isFile)
                => IF last.n <= Len(obj.data)
                   THEN /\ last.ret = "ok"
                        /\ last.data = SubSeq(obj.data, last.n + 1, Len(obj.data))
                   ELSE /\ last.ret = "InvalidOffset"
                        /\ last.dst = fullPath(last.path)
                        /\ ~last.flag
    IN Of(FileAt(fs, fullPath(last.path)))

\* C5: Writer on a path with no object, or without append on an existing
\* object, leaves a fresh empty object and a starting size of 0, and once
\* the session is closed the object holds exactly the session's bytes
C5_OpenMode ==
    LET Of(obj) ==
            /\ (last.op = "Writer" /\ FreshSession)
                   => /\ obj = [isFile |-> TRUE, data |-> <<>>]
                      /\ w.startingFileSize = 0
                      /\ SizeOp(w).writeSize = 0
            /\ (last.op = "Close" /\ FreshSession)
                   => obj = [isFile |-> TRUE, data |-> acct.bytes]
    IN Of(FileAt(fs, w.filePath))

\* C6: the remote handle's close is invoked at most once per session, and
\* Close returns without error
C6_CloseOnce ==
    /\ acct.closes <= 1
    /\ last.op = "Close" => last.ret = "ok"

\* C7: after a Move(a, b) of the object at a that returned success, a # b,
\* Stat(a) fails with PathNotFound, Stat(b) reports the size the object had,
\* GetContent(b) returns the content it had, and every ancestor directory
\* of b exists
C7_MovePostState ==
    (last.op = "Move" /\ last.ret = "ok" /\ last.flag /\ last.path # last.dst)
        => /\ StatOp(fs, last.path, FALSE).ret = "PathNotFound"
           /\ StatOp(fs, last.dst, FALSE).ret = "ok"
           /\ StatOp(fs, last.dst, FALSE).size = Len(last.data)
           /\ ~StatOp(fs, last.dst, FALSE).isDir
           /\ GetContentOp(fs, last.dst, FALSE).ret = "ok"
           /\ GetContentOp(fs, last.dst, FALSE).data = last.data
           /\ \A q \in SelfAndAncestors(Parent(Key(fullPath(last.dst)))) :
                  q \in DOMAIN fs /\ fs[q].isDir

\* a Move of a non-empty object into a directory that the Move created
\* together with its parent
C7_Witness ==
    /\ last.op = "Move" /\ last.ret = "ok" /\ last.flag
    /\ last.path # last.dst
    /\ Len(last.data) > 0
    /\ last.n > 1

\* C8: after a Delete(p) that returned success nothing is left at p or
\* below it, and Stat on p and on every path below it fails with
\* PathNotFound
C8_DeleteRecursive ==
    LET Of(k) ==
            (last.op = "Delete" /\ last.ret = "ok")
                => /\ \A q \in DOMAIN fs : q # k /\ ~IsUnder(q, k)
                   /\ \A p \in AnyPaths :
                          (Key(fullPath(p)) = k \/ IsUnder(Key(fullPath(p)), k))
                              => StatOp(fs, p, FALSE).ret = "PathNotFound"
    IN Of(Key(fullPath(last.path)))

\* a Delete of a directory below the root that had descendants two levels
\* down
C8_Witness ==
    /\ last.op = "Delete" /\ last.ret = "ok"
    /\ Key(fullPath(last.path)) # Key(root)
    /\ last.n >= 3
    /\ \E p \in AnyPaths :
           /\ IsUnder(Parent(Key(fullPath(p))), Key(fullPath(last.path)))
           /\ StatOp(fs, p, FALSE).ret = "PathNotFound"

\* C9: List(p) returns no error; for an existing directory it returns one
\* entry per immediate child, each a root-prefixed path that resolves back
\* to that child; for a path that does not exist it returns the empty list
C9_List ==
    LET Of(k) ==
            last.op = "List"
                => /\ last.ret = "ok"
                   /\ (k \in DOMAIN fs /\ fs[k].isDir)
                          => /\ Len(last.list) = Cardinality(Children(fs, k))
                             /\ {Key(last.list[i]) : i \in 1..Len(last.list)}
                                    = Children(fs, k)
                             /\ \A i \in 1..Len(last.list) :
                                    /\ HasPrefix(last.list[i], root)
                                    /\ Key(fullPath(last.list[i]))
                                           = Key(last.list[i])
                   /\ k \notin DOMAIN fs => last.list = <<>>
    IN Of(Key(fullPath(last.path)))

\* C10: every name handed to the remote client lies inside the subtree of
\* the configured root directory
C10_Confinement == \A t \in last.targets : Inside(t)

\* C11: a Reader whose remote open fails (no object at the path, or a
\* failure of the backend) returns PathNotFound and no reader
C11_ReaderNotFound ==
    LET Of(k) ==
            (last.op = "Reader" /\ (last.fault = "open" \/ k \notin DOMAIN fs))
                => last.ret = "PathNotFound" /\ ~last.flag
    IN Of(Key(fullPath(last.path)))

\* C12: a GetContent or Stat whose backend call fails, for a failure of the
\* backend or for want of an object at the path, fails with PathNotFound
\* carrying the resolved full path, and no GetContent or Stat changes the
\* remote filesystem
C12_NotFound ==
    [][LET Of(k) ==
               last'.op \in {"GetContent", "Stat"}
                   => /\ fs' = fs
                      /\ (last'.fault # "none" \/ k \notin DOMAIN fs)
                             => /\ last'.ret = "PathNotFound"
                                /\ last'.dst = fullPath(last'.path)
       IN Of(Key(fullPath(last'.path)))]_vars

\* a GetContent of a non-empty object that failed for the backend's own
\* reasons, with a resolved path that is not the path given
C12_Witness ==
    /\ last.op = "GetContent" /\ last.fault = "read"
    /\ FileAt(fs, fullPath(last.path)).isFile
    /\ FileAt(fs, fullPath(last.path)).data # <<>>
    /\ last.ret = "PathNotFound"
    /\ last.dst = fullPath(last.path)
    /\ last.dst # last.path

C14_Construction ==
    last.op = "FromParameters"
        => /\ last.ret \in {"driver", "error"}
           /\ (\/ ~last.flag
               \/ (/\ ~last.parameters.nil
                   /\ last.parameters.directoryumask.type = "string"))
                  => last.ret = "error"

\* C15: URLFor fails with UnsupportedMethod and an empty URL, makes no call
\* of the remote client and changes nothing on the remote filesystem
C15_URLFor ==
    [][last'.op = "URLFor"
           => /\ last'.ret = "UnsupportedMethod"
              /\ last'.data = <<>>
              /\ last'.targets = {}
              /\ fs' = fs]_vars

\* a URLFor with options on the path of an object that exists
C15_Witness ==
    /\ last.op = "URLFor"
    /\ last.list # <<>>
    /\ FileAt(fs, fullPath(last.path)).isFile
    /\ last.ret = "UnsupportedMethod"

\* C16: the session that a Writer call returned without error holds a
\* remote write handle, open on the file of its path
C16_SessionHandle ==
    (last.op = "Writer" /\ last.ret = "ok")
        => /\ w.hdfsWriter = "set"
           /\ h.open
           /\ h.at = Key(w.filePath)

\* C17: what Size() reports is the starting size of the session plus the
\* length of all its Writes; a Write of M bytes raises it by M; Size, Close,
\* Commit and Cancel leave it as it is; it never decreases
C17_ByteCounter ==
    /\ [](w.live => SizeOp(w).writeSize = acct.seed + Len(acct.bytes))
    /\ [][LET Of(before, after) ==
                  (w.live /\ last'.op \in {"Write", "Size", "Close",
                                           "Commit", "Cancel"})
                      => /\ after >= before
                         /\ (last'.op = "Write" /\ last'.ret = "ok")
                                => after = before + Len(last'.bytes)
                         /\ last'.op # "Write" => after = before
                         /\ last'.op = "Size" => last'.n = before
          IN Of(SizeOp(w).writeSize, SizeOp(w').writeSize)]_vars

\* Size() on an append session with a starting size, after a Write
C17_Witness ==
    /\ last.op = "Size"
    /\ acct.seed > 0
    /\ acct.bytes # <<>>
    /\ last.n = acct.seed + Len(acct.bytes)

\* C18: the path that an operation resolved resolves to itself, so that an
\* operation resolving it a second time reaches the same file
C18_Idempotent ==
    last.op \in {"GetContent", "PutContent", "Reader", "Stat", "List",
                 "Move", "Delete"}
        => fullPath(fullPath(last.path)) = fullPath(last.path)

\* C19: an operation that returned left no remote handle open but the ones
\* it returned to its caller
C19_NoLeak == last.leaks = 0

====
